---- MODULE Spec2Model ----
(***************************************************************************)
(* Model of script.js: the page-interaction layer (header show/hide on     *)
(* scroll, mobile navigation drawer, light/dark theme, scroll progress     *)
(* indicator, finance-news loader).                                        *)
(*                                                                         *)
(* Three specifications share the variables:                               *)
(*   Spec       the event callbacks of a loaded page: scroll events, the   *)
(*              debounce timer, trigger clicks and drawer-link clicks;     *)
(*   ThemeSpec  the DOMContentLoaded handler and the theme toggle, over    *)
(*              every content and failure mode of the storage slot;        *)
(*   NewsSpec   the DOMContentLoaded handler, the asynchronous news        *)
(*              loader and the delayed animation setup.                    *)
(***************************************************************************)
EXTENDS Integers, Sequences, FiniteSets, TLC

(***************************************************************************)
(* Bounds of the model.                                                    *)
(***************************************************************************)
\* scroll offsets are multiples of ScrollStep from OverscrollSteps steps below 0 to MaxScrollK steps
ScrollStep == 25
OverscrollSteps == 1
MaxScrollK == 5
\* timer handles the platform hands out
MaxTimers == 2
\* longest items list the endpoint returns
MaxItems == 6

(***************************************************************************)
(* Program constants.                                                      *)
(***************************************************************************)
ScrolledThreshold == 50
DebounceDelay == 10
MaxNewsItems == 4

ScrollOffsets == {k * ScrollStep : k \in (0 - OverscrollSteps)..MaxScrollK}
\* header.offsetHeight, window.innerHeight, documentElement.scrollHeight
HeaderHeights == {60, 90}
InnerHeight == 100
ScrollHeights == {InnerHeight - 20, InnerHeight, InnerHeight + 100}

VARIABLES
    \* --- elements found at startup (lines 8-16) ---
    present,          \* subset of Elements that exist in the document
    \* --- scroll state ---
    scrollY,          \* window.scrollY
    lastScrollY,      \* let lastScrollY
    headerHeight,     \* header.offsetHeight
    scrollHeight,     \* document.documentElement.scrollHeight
    headerClasses,    \* header.classList, restricted to scrolled / hidden
    progressWidth,    \* scrollProgressIndicator.style.width
    timers,           \* pending timeouts: handle -> remaining ms
    scrollTimeout,    \* let scrollTimeout (0 = undefined)
    quietTime,        \* ms since the last scroll event, capped at DebounceDelay
    runsSinceScroll,  \* runs of the debounced callback since the last scroll event
    sinceRun,         \* since the last run: "none" (no run yet), "quiet", "repeat" (the run
                      \* re-read the offset of the run before it), "nav" (drawer toggled)
    \* --- drawer ---
    isNavOpen,        \* let isNavOpen
    navToggleClasses, \* navToggle.classList
    ariaExpanded,     \* navToggle aria-expanded
    panelClasses,     \* mobileNavPanel.classList
    ariaHidden,       \* mobileNavPanel aria-hidden
    bodyClasses,      \* body.classList
    \* --- page load, theme ---
    pageState,        \* "boot" | "running" | "crashed" (the load handler threw)
    listeners,        \* the event listeners of lines 316-339 are registered
    storageMode,      \* "ok" | "writeFails" | "unavailable"
    storedTheme,      \* localStorage slot 'theme' ("null" = absent)
    currentTheme,     \* let currentTheme
    themeIcon,        \* themeToggle.innerHTML
    themeLabel,       \* themeToggle aria-label
    reducedMotion,    \* const prefersReducedMotion
    animations,       \* "none" | "pending" | "scroll" | "static"
    \* --- news loader ---
    newsGrid,         \* children of #news-grid
    newsPc,           \* "idle" | "awaitFetch" | "awaitJson" | "done"
    requests,         \* fetch calls issued
    fetchResult,      \* how the fetch promise settled
    responseBody      \* the body the endpoint sent

scrollVars == << scrollY, lastScrollY, headerHeight, scrollHeight,
                 headerClasses, progressWidth, timers, scrollTimeout,
                 quietTime, runsSinceScroll, sinceRun >>
navVars == << isNavOpen, navToggleClasses, ariaExpanded, panelClasses, ariaHidden >>
themeVars == << storageMode, storedTheme, currentTheme, themeIcon, themeLabel >>
newsVars == << newsGrid, newsPc, requests, fetchResult, responseBody >>
pageVars == << pageState, listeners, reducedMotion, animations, themeVars, newsVars >>

vars == << present, scrollVars, navVars, bodyClasses, pageVars >>

ScrollElements == {"header", "navToggle", "panel", "indicator"}
Elements == ScrollElements \cup {"themeToggle", "newsGrid"}
\* every element found, or one of them missing from the document
ElementConfigs == {Elements} \cup {Elements \ {e} : e \in ScrollElements}

\* String(boolean), as setAttribute stores it
BoolStr(b) == IF b THEN "true" ELSE "false"

\* classList.toggle(name, force)
ClassToggle(classes, name, force) ==
    IF force THEN classes \cup {name} ELSE classes \ {name}

(***************************************************************************)
(* handleHeaderScroll (lines 45-66)                                        *)
(***************************************************************************)
ScrolledClass(y) == y > ScrolledThreshold

\* mutants: the direction test made non-strict; the direction test dropped
HideHeaderNonStrict(y, last, height, navOpen) ==
    y >= last /\ y > height /\ ~navOpen

HideHeaderNoDirection(y, last, height, navOpen) ==
    y > height /\ ~navOpen

HideHeader(y, last, height, navOpen) ==
    y > last /\ y > height /\ ~navOpen

HeaderClassesAfterScroll(classes, y, last, height, navOpen) ==
    ClassToggle(ClassToggle(classes, "scrolled", ScrolledClass(y)),
                "hidden", HideHeader(y, last, height, navOpen))

(***************************************************************************)
(* updateScrollProgress (lines 136-143).  A percentage is the rational     *)
(* num/den; set = FALSE is an indicator whose inline width was never set.  *)
(***************************************************************************)
Unset == [set |-> FALSE, num |-> 0, den |-> 1]

ScrolledPercentage(y, sh, ih) ==
    LET scrollableHeight == sh - ih
    IN  IF scrollableHeight > 0
        THEN [set |-> TRUE, num |-> y * 100, den |-> scrollableHeight]
        ELSE [set |-> TRUE, num |-> 0, den |-> 1]

\* style.width = `${p}%`: a negative length is not a valid width and the
\* assignment leaves the declaration as it was
StyleWidthAfter(old, p) == IF p.num < 0 THEN old ELSE p

(***************************************************************************)
(* applyTheme, updateThemeToggleIcon, toggleTheme (lines 104-131)          *)
(***************************************************************************)
\* localStorage.getItem('theme') || 'light'  (line 22)
ReadTheme(stored) == IF stored = "null" \/ stored = "" THEN "light" ELSE stored

ThemeClasses == {"light-mode", "dark-mode"}

\* body.classList.remove('light-mode', 'dark-mode'); add(`${theme}-mode`)
BodyClassesAfterApply(classes, theme) ==
    (classes \ ThemeClasses) \cup {theme \o "-mode"}

IconFor(theme) == IF theme = "dark" THEN "sun" ELSE "moon"
LabelFor(theme) ==
    "Switch to " \o (IF theme = "dark" THEN "light" ELSE "dark") \o " mode"

NewTheme(theme) == IF theme = "light" THEN "dark" ELSE "light"

\* applyTheme(theme) on the theme state st: localStorage.setItem (line 107)
\* throws when the slot cannot be written, and lines 108-110 are not reached
ApplyTheme(theme, st) ==
    IF storageMode = "ok"
    THEN [bodyClasses |-> BodyClassesAfterApply(st.bodyClasses, theme),
          storedTheme |-> theme,
          currentTheme |-> theme,
          themeIcon |-> IF "themeToggle" \in present THEN IconFor(theme) ELSE st.themeIcon,
          themeLabel |-> IF "themeToggle" \in present THEN LabelFor(theme) ELSE st.themeLabel,
          threw |-> FALSE]
    ELSE [bodyClasses |-> BodyClassesAfterApply(st.bodyClasses, theme),
          storedTheme |-> st.storedTheme,
          currentTheme |-> st.currentTheme,
          themeIcon |-> st.themeIcon,
          themeLabel |-> st.themeLabel,
          threw |-> TRUE]

(***************************************************************************)
(* displayFinanceNews (lines 158-221)                                      *)
(***************************************************************************)
Node(kind, text) ==
    [kind |-> kind, title |-> "", link |-> "", imageUrl |-> "", excerpt |-> text]

LoadingNode == Node("loading", "Loading latest news...")
EmptyNode == Node("empty", "No news items found.")
ErrorNode == Node("error", "Could not load news at this time. Check console for details.")

\* a || b on strings: an absent or empty field is falsy
Or(a, b) == IF a = "" THEN b ELSE a

PlaceholderImage == "https://via.placeholder.com/400x250/cccccc/999999?text=News"

\* lines 183-207
Card(item) ==
    [kind |-> "card",
     title |-> Or(item.title, "No Title Available"),
     link |-> Or(item.link, "#"),
     imageUrl |-> Or(item.imageUrl, PlaceholderImage),
     excerpt |-> Or(Or(item.excerpt, item.description), "No description available.")]

\* newsData.items.slice(0, 4)
ItemsToDisplay(items) ==
    SubSeq(items, 1, IF Len(items) < MaxNewsItems THEN Len(items) ELSE MaxNewsItems)

Cards(items) == [i \in 1..Len(ItemsToDisplay(items)) |-> Card(ItemsToDisplay(items)[i])]

\* response.ok
ResponseOkAlways(status) == TRUE

ResponseOk(status) == status >= 200 /\ status <= 299

\* staggerAnimation is a const of initScrollAnimations' body (line 250); the
\* call at line 211 is outside that scope and throws a ReferenceError
StaggerAnimationInScope == FALSE

\* newsData && newsData.items && newsData.items.length > 0
HasItems(body) == body.json = "object" /\ body.hasItems /\ Len(body.items) > 0

\* lines 176-220 for a parsed body: the grid when the function returns
GridAfterRender(body) ==
    IF HasItems(body)
    THEN IF StaggerAnimationInScope THEN Cards(body.items) ELSE << ErrorNode >>
    ELSE << EmptyNode >>

Pending == [kind |-> "pending", status |-> 0]
NetworkError == [kind |-> "networkError", status |-> 0]
Response(status) == [kind |-> "response", status |-> status]
Statuses == {200, 204, 404, 500}

NoBody == [json |-> "none", hasItems |-> FALSE, items |-> << >>]
Item(t, l, i, e, d) ==
    [title |-> t, link |-> l, imageUrl |-> i, excerpt |-> e, description |-> d]
ItemKinds ==
    { Item("A", "http://x", "", "", ""),
      Item("B", "http://y", "http://img", "E", "D"),
      Item("", "", "", "", "D") }
ItemLists == UNION { [1..n -> ItemKinds] : n \in 0..MaxItems }
Bodies ==
    { [json |-> "invalid", hasItems |-> FALSE, items |-> << >>],
      [json |-> "null", hasItems |-> FALSE, items |-> << >>],
      [json |-> "object", hasItems |-> FALSE, items |-> << >>] }
    \cup { [json |-> "object", hasItems |-> TRUE, items |-> l] : l \in ItemLists }

(***************************************************************************)
(* Initial state of a loaded page.                                         *)
(***************************************************************************)
InitialMarkup ==
    /\ headerClasses = {}
    /\ navToggleClasses = {}
    /\ panelClasses = {}
    /\ ariaExpanded = "false"
    /\ ariaHidden = "true"

\* lines 19-21 and the state no callback has touched yet
ScrollInit ==
    /\ lastScrollY = scrollY
    /\ headerHeight \in HeaderHeights
    /\ scrollHeight \in ScrollHeights
    /\ InitialMarkup
    /\ progressWidth = Unset
    /\ timers = << >>
    /\ scrollTimeout = 0
    /\ quietTime = DebounceDelay
    /\ runsSinceScroll = 0
    /\ sinceRun = "none"
    /\ isNavOpen = FALSE

\* a page whose load handler has completed with an empty storage slot and
\* whose news request is in flight
Init ==
    /\ present \in ElementConfigs
    /\ scrollY \in ScrollOffsets
    /\ ScrollInit
    /\ bodyClasses = {"light-mode"}
    /\ pageState = "running"
    /\ listeners = TRUE
    /\ storageMode = "ok"
    /\ storedTheme = "light"
    /\ currentTheme = "light"
    /\ themeIcon = "moon"
    /\ themeLabel = "Switch to dark mode"
    /\ reducedMotion = FALSE
    /\ animations = "pending"
    /\ newsGrid = << LoadingNode >>
    /\ newsPc = "awaitFetch"
    /\ requests = 1
    /\ fetchResult = Pending
    /\ responseBody = NoBody

(***************************************************************************)
(* scroll listener (lines 315-322)                                         *)
(***************************************************************************)
\* clearTimeout(handle)
ClearTimeout(ts, handle) == [i \in DOMAIN ts \ {handle} |-> ts[i]]

\* mutant: the pending timer is not cancelled
ScrollListenerNoClear(ts, handle) ==
    LET h == CHOOSE i \in 1..(MaxTimers + 1) : i \notin DOMAIN ts /\ i # handle
    IN  [timers |-> [i \in DOMAIN ts \cup {h} |->
                        IF i = h THEN DebounceDelay ELSE ts[i]],
         scrollTimeout |-> h]

\* the handle setTimeout returns: one not in use
FreshHandle(ts, old) == CHOOSE i \in 1..(MaxTimers + 1) : i \notin DOMAIN ts /\ i # old

ScrollListener(ts, handle) ==
    LET cleared == ClearTimeout(ts, handle)
        h == FreshHandle(cleared, handle)
    IN  [timers |-> [i \in DOMAIN cleared \cup {h} |->
                        IF i = h THEN DebounceDelay ELSE cleared[i]],
         scrollTimeout |-> h]

ScrollEvent(y) ==
    /\ Cardinality(DOMAIN timers) < MaxTimers
    /\ scrollY' = y
    /\ LET r == ScrollListener(timers, scrollTimeout)
       IN  /\ timers' = r.timers
           /\ scrollTimeout' = r.scrollTimeout
    /\ quietTime' = 0
    /\ runsSinceScroll' = 0
    /\ UNCHANGED << present, lastScrollY, headerHeight, scrollHeight,
                    headerClasses, progressWidth, sinceRun, isNavOpen,
                    navToggleClasses, ariaExpanded, panelClasses, ariaHidden,
                    bodyClasses, pageVars >>

\* one millisecond passes
Tick ==
    /\ quietTime < DebounceDelay
    /\ quietTime' = quietTime + 1
    /\ timers' = [i \in DOMAIN timers |-> IF timers[i] > 0 THEN timers[i] - 1 ELSE 0]
    /\ UNCHANGED << present, scrollY, lastScrollY, headerHeight, scrollHeight,
                    headerClasses, progressWidth, scrollTimeout,
                    runsSinceScroll, sinceRun, isNavOpen, navToggleClasses,
                    ariaExpanded, panelClasses, ariaHidden, bodyClasses,
                    pageVars >>

\* the timeout callback: handleHeaderScroll(); updateScrollProgress();
TimerFire(h) ==
    /\ h \in DOMAIN timers
    /\ timers[h] = 0
    /\ timers' = ClearTimeout(timers, h)
    /\ IF "header" \in present
       THEN /\ headerClasses' = HeaderClassesAfterScroll(headerClasses, scrollY,
                                    lastScrollY, headerHeight, isNavOpen)
            /\ lastScrollY' = scrollY
       ELSE UNCHANGED << headerClasses, lastScrollY >>
    /\ IF "indicator" \in present
       THEN progressWidth' = StyleWidthAfter(progressWidth,
                                ScrolledPercentage(scrollY, scrollHeight, InnerHeight))
       ELSE UNCHANGED progressWidth
    /\ runsSinceScroll' = runsSinceScroll + 1
    /\ sinceRun' = IF sinceRun \in {"quiet", "repeat"} /\ scrollY = lastScrollY
                   THEN "repeat" ELSE "quiet"
    /\ UNCHANGED << present, scrollY, headerHeight, scrollHeight, scrollTimeout,
                    quietTime, isNavOpen, navToggleClasses, ariaExpanded,
                    panelClasses, ariaHidden, bodyClasses, pageVars >>

(***************************************************************************)
(* toggleMobileNav (lines 71-89), closeMobileNav (lines 94-98)             *)
(***************************************************************************)
NavOpenAfterToggle(open) == ~open

\* mutant: aria-hidden written with the flag instead of its negation
PanelAriaHiddenSame(open) == BoolStr(open)

\* mobileNavPanel.setAttribute('aria-hidden', !isNavOpen)
PanelAriaHidden(open) == BoolStr(~open)

\* mutant: the header is left as it was when the drawer opens
HeaderClassesKept(classes, open) == classes

\* if (isNavOpen) header.classList.remove('hidden')
HeaderClassesAfterToggle(classes, open) ==
    IF open THEN classes \ {"hidden"} ELSE classes

ToggleMobileNav ==
    LET open == NavOpenAfterToggle(isNavOpen) IN
    /\ isNavOpen' = open
    /\ navToggleClasses' = ClassToggle(navToggleClasses, "active", open)
    /\ ariaExpanded' = BoolStr(open)
    /\ IF "panel" \in present
       THEN /\ panelClasses' = ClassToggle(panelClasses, "active", open)
            /\ ariaHidden' = PanelAriaHidden(open)
       ELSE UNCHANGED << panelClasses, ariaHidden >>
    /\ bodyClasses' = ClassToggle(bodyClasses, "no-scroll", open)
    \* header.classList.remove('hidden'); without a header this line throws,
    \* after every other assignment was made
    /\ IF "header" \in present
       THEN headerClasses' = HeaderClassesAfterToggle(headerClasses, open)
       ELSE UNCHANGED headerClasses
    /\ sinceRun' = IF sinceRun = "none" THEN "none" ELSE "nav"
    /\ UNCHANGED << present, scrollY, lastScrollY, headerHeight, scrollHeight,
                    progressWidth, timers, scrollTimeout, quietTime,
                    runsSinceScroll, pageVars >>

\* click on .nav-toggle (lines 324-326)
NavToggleClick ==
    /\ "navToggle" \in present
    /\ ToggleMobileNav

\* click on a link inside the panel (lines 329-335)
PanelLinkClick ==
    /\ "panel" \in present
    /\ isNavOpen
    /\ ToggleMobileNav

Next ==
    \/ \E y \in ScrollOffsets : ScrollEvent(y)
    \/ Tick
    \/ \E h \in 1..(MaxTimers + 1) : TimerFire(h)
    \/ NavToggleClick
    \/ PanelLinkClick

Spec == Init /\ [][Next]_vars

(***************************************************************************)
(* DOMContentLoaded handler (lines 1-376)                                  *)
(***************************************************************************)
StoredValues == {"null", "", "light", "dark", "blue"}
StorageModes == {"ok", "writeFails", "unavailable"}

\* the document before the load handler runs
PageBoot ==
    /\ scrollY = 0
    /\ headerHeight = 60
    /\ scrollHeight = InnerHeight
    /\ ScrollInit
    /\ bodyClasses = {"preload"}
    /\ pageState = "boot"
    /\ listeners = FALSE
    /\ storageMode \in StorageModes
    /\ currentTheme = "undefined"
    /\ themeIcon = "unset"
    /\ themeLabel = "unset"
    /\ animations = "none"
    /\ newsGrid = << >>
    /\ newsPc = "idle"
    /\ requests = 0
    /\ fetchResult = Pending
    /\ responseBody = NoBody

Startup ==
    /\ pageState = "boot"
    /\ IF storageMode = "unavailable"
       THEN \* line 22 throws: nothing after it runs
            /\ pageState' = "crashed"
            /\ UNCHANGED << listeners, bodyClasses, currentTheme, storedTheme,
                            themeIcon, themeLabel, animations, newsVars >>
       ELSE LET theme == ReadTheme(storedTheme)
                r == ApplyTheme(theme,
                        [bodyClasses |-> bodyClasses, storedTheme |-> storedTheme,
                         currentTheme |-> theme, themeIcon |-> themeIcon,
                         themeLabel |-> themeLabel])
            IN  /\ listeners' = TRUE
                /\ storedTheme' = r.storedTheme
                /\ currentTheme' = r.currentTheme
                /\ themeIcon' = r.themeIcon
                /\ themeLabel' = r.themeLabel
                /\ IF r.threw
                   THEN \* line 344 throws: lines 347-367 do not run
                        /\ pageState' = "crashed"
                        /\ bodyClasses' = r.bodyClasses
                        /\ UNCHANGED << animations, newsVars >>
                   ELSE /\ pageState' = "running"
                        \* displayFinanceNews() up to its first await
                        /\ IF "newsGrid" \in present
                           THEN /\ newsGrid' = << LoadingNode >>
                                /\ requests' = requests + 1
                                /\ newsPc' = "awaitFetch"
                           ELSE UNCHANGED << newsGrid, requests, newsPc >>
                        /\ UNCHANGED << fetchResult, responseBody >>
                        \* revealPageContent()
                        /\ bodyClasses' = r.bodyClasses \ {"preload"}
                        \* setTimeout(..., 100)
                        /\ animations' = "pending"
    /\ UNCHANGED << present, scrollVars, navVars, storageMode, reducedMotion >>

\* click on #theme-toggle (lines 337-339): toggleTheme
ThemeToggleClick ==
    /\ listeners
    /\ "themeToggle" \in present
    /\ LET r == ApplyTheme(NewTheme(currentTheme),
                    [bodyClasses |-> bodyClasses, storedTheme |-> storedTheme,
                     currentTheme |-> currentTheme, themeIcon |-> themeIcon,
                     themeLabel |-> themeLabel])
       IN  /\ bodyClasses' = r.bodyClasses
           /\ storedTheme' = r.storedTheme
           /\ currentTheme' = r.currentTheme
           /\ themeIcon' = r.themeIcon
           /\ themeLabel' = r.themeLabel
    /\ UNCHANGED << present, scrollVars, navVars, pageState, listeners,
                    storageMode, reducedMotion, animations, newsVars >>

\* the fetch promise settles (lines 170-173)
FetchSettle(result) ==
    /\ newsPc = "awaitFetch"
    /\ fetchResult' = result
    /\ IF result.kind = "networkError" \/ ~ResponseOk(result.status)
       THEN /\ newsGrid' = << ErrorNode >>
            /\ newsPc' = "done"
       ELSE /\ newsPc' = "awaitJson"
            /\ UNCHANGED newsGrid
    /\ UNCHANGED << present, scrollVars, navVars, bodyClasses, pageState,
                    listeners, reducedMotion, animations, themeVars, requests,
                    responseBody >>

\* the response.json() promise settles (lines 174-220)
JsonSettle(body) ==
    /\ newsPc = "awaitJson"
    /\ responseBody' = body
    /\ newsGrid' = IF body.json = "invalid" THEN << ErrorNode >> ELSE GridAfterRender(body)
    /\ newsPc' = "done"
    /\ UNCHANGED << present, scrollVars, navVars, bodyClasses, pageState,
                    listeners, reducedMotion, animations, themeVars, requests,
                    fetchResult >>

\* the 100 ms timeout (lines 357-367)
AnimationSetup ==
    /\ animations = "pending"
    /\ animations' = IF reducedMotion THEN "static" ELSE "scroll"
    /\ UNCHANGED << present, scrollVars, navVars, bodyClasses, pageState,
                    listeners, reducedMotion, themeVars, newsVars >>

ThemeInit ==
    /\ present \in {Elements, Elements \ {"themeToggle"}}
    /\ storedTheme \in StoredValues
    /\ reducedMotion \in BOOLEAN
    /\ PageBoot

ThemeNext ==
    \/ Startup
    \/ ThemeToggleClick
    \/ AnimationSetup

ThemeSpec == ThemeInit /\ [][ThemeNext]_vars

NewsInit ==
    /\ present \in {Elements, Elements \ {"newsGrid"}}
    /\ storedTheme = "null"
    /\ reducedMotion \in BOOLEAN
    /\ PageBoot

NewsNext ==
    \/ Startup
    \/ \E result \in {NetworkError} \cup {Response(st) : st \in Statuses} : FetchSettle(result)
    \/ \E body \in Bodies : JsonSettle(body)
    \/ AnimationSetup

NewsSpec == NewsInit /\ [][NewsNext]_vars

(***************************************************************************)
(* Properties of Spec.                                                     *)
(***************************************************************************)
\* a step that runs the debounced callback
HandlerRun == runsSinceScroll' = runsSinceScroll + 1

HeaderHidden == "hidden" \in headerClasses

\* C2: after every run of handleHeaderScroll with a header present, hidden
\* holds iff the offset read is strictly greater than the offset the previous
\* run recorded, strictly greater than the header height, and the drawer is
\* closed; a descending or equal offset gives hidden = false; the run records
\* lastScrollY := y.
C2_HiddenRule ==
    [][(HandlerRun /\ "header" \in present) =>
          /\ ("hidden" \in headerClasses') <=>
                (scrollY > lastScrollY /\ scrollY > headerHeight /\ ~isNavOpen)
          /\ (scrollY <= lastScrollY => "hidden" \notin headerClasses')
          /\ lastScrollY' = scrollY]_vars

\* a run has hidden the header: the offset it recorded is above the header height
C2_Witness ==
    /\ "header" \in present
    /\ sinceRun = "quiet"
    /\ runsSinceScroll = 1
    /\ HeaderHidden
    /\ lastScrollY > headerHeight
    /\ ~isNavOpen

\* C4: the header never carries the hidden class while the drawer is open.
C4_NoHiddenWhileOpen == isNavOpen => ~HeaderHidden

\* the callback ran with the drawer open at an offset past the header height
C4_Witness ==
    /\ "header" \in present
    /\ isNavOpen
    /\ sinceRun \in {"quiet", "repeat"}
    /\ lastScrollY > headerHeight
    /\ ~HeaderHidden

\* C5: the drawer-open flag equals the visible state of the drawer:
\* aria-expanded equals the flag, aria-hidden its negation, the active class on
\* trigger and panel and the body's no-scroll class are present exactly when
\* the flag is true.
C5_DrawerMirrors ==
    /\ ariaExpanded = (IF isNavOpen THEN "true" ELSE "false")
    /\ ("active" \in navToggleClasses) <=> isNavOpen
    /\ "panel" \in present =>
          /\ ariaHidden = (IF isNavOpen THEN "false" ELSE "true")
          /\ ("active" \in panelClasses) <=> isNavOpen
    /\ ("no-scroll" \in bodyClasses) <=> isNavOpen

\* the drawer was opened and its panel shows it
C5_Witness ==
    /\ isNavOpen
    /\ "panel" \in present
    /\ ariaExpanded = "true"
    /\ ariaHidden = "false"
    /\ "active" \in panelClasses
    /\ "no-scroll" \in bodyClasses

\* C9: the debounced callback runs only when DebounceDelay ms have passed
\* with no scroll event; each scroll event cancels the pending timer and arms
\* a new one; at most one timer is pending; between two scroll events the
\* callback runs at most once, and once the quiet period has passed the pending
\* timer is due.
C9_Debounce ==
    /\ [](/\ Cardinality(DOMAIN timers) <= 1
          /\ runsSinceScroll <= 1
          /\ runsSinceScroll = 1 => timers = << >>
          /\ \A h \in DOMAIN timers : h = scrollTimeout /\ timers[h] = DebounceDelay - quietTime)
    /\ [][HandlerRun => (quietTime >= DebounceDelay /\ timers' = << >>)]_vars
    /\ [][scrollTimeout' # scrollTimeout =>
            (DOMAIN timers' = {scrollTimeout'} /\ timers'[scrollTimeout'] = DebounceDelay)]_vars

\* a burst re-armed the timer and the callback then ran once
C9_Witness ==
    /\ runsSinceScroll = 1
    /\ timers = << >>
    /\ quietTime = DebounceDelay
    /\ scrollTimeout = 2

\* C10 as stated: a run that re-reads the offset of the run before it, with
\* no drawer activity in between, leaves scrolled and hidden as they were and
\* yields hidden = false.
C10_Original ==
    [][(HandlerRun /\ "header" \in present /\ sinceRun \in {"quiet", "repeat"}
            /\ scrollY = lastScrollY) =>
          /\ headerClasses' = headerClasses
          /\ "hidden" \notin headerClasses']_vars

\* C10 amended: such a run leaves scrolled as it was and yields hidden =
\* false; hidden is unchanged only when the run before left it false.
C10_RepeatedSample ==
    [][(HandlerRun /\ "header" \in present /\ sinceRun \in {"quiet", "repeat"}
            /\ scrollY = lastScrollY) =>
          /\ ("scrolled" \in headerClasses') <=> ("scrolled" \in headerClasses)
          /\ "hidden" \notin headerClasses'
          /\ ~HeaderHidden => headerClasses' = headerClasses]_vars

\* a run re-read an offset past both thresholds
C10_Witness ==
    /\ "header" \in present
    /\ sinceRun = "repeat"
    /\ lastScrollY > headerHeight
    /\ "scrolled" \in headerClasses
    /\ ~HeaderHidden
    /\ ~isNavOpen

\* y / (scrollHeight - viewportHeight) clamped to [0, 1], as a percentage
ClampedPercentage(y, sh, ih) ==
    IF sh <= ih \/ y <= 0 THEN [num |-> 0, den |-> 1]
    ELSE IF y >= sh - ih THEN [num |-> 100, den |-> 1]
    ELSE [num |-> y * 100, den |-> sh - ih]

\* C3: the width updateScrollProgress applies is 0 when scrollHeight <=
\* viewportHeight and otherwise y / (scrollHeight - viewportHeight) clamped to
\* [0, 1], so it is never below 0% nor above 100%.
C3_ProgressClamped ==
    [][(HandlerRun /\ "indicator" \in present) =>
          LET c == ClampedPercentage(scrollY, scrollHeight, InnerHeight)
              w == progressWidth'
          IN  /\ w.set
              /\ w.num * c.den = c.num * w.den
              /\ 0 <= w.num /\ w.num <= 100 * w.den]_vars

(***************************************************************************)
(* Properties of NewsSpec.                                                 *)
(***************************************************************************)
\* the endpoint answered with a success status and a body with n >= 1 items
NewsSucceeded ==
    /\ newsPc = "done"
    /\ fetchResult.kind = "response"
    /\ fetchResult.status >= 200 /\ fetchResult.status <= 299
    /\ responseBody.json = "object"
    /\ responseBody.hasItems
    /\ Len(responseBody.items) >= 1

\* the request failed: network error, non-success status or unparseable body
NewsFailed ==
    /\ newsPc = "done"
    /\ \/ fetchResult.kind = "networkError"
       \/ fetchResult.kind = "response" /\
             (fetchResult.status < 200 \/ fetchResult.status > 299)
       \/ responseBody.json = "invalid"

\* C1: after a success answer with n >= 1 items the grid holds exactly
\* min(n, 4) cards, built from the first min(n, 4) items in order, with the
\* fallback image and excerpt where the item has none, and neither the loading
\* placeholder nor the error message.
C1_CardsRendered ==
    NewsSucceeded =>
        LET n == Len(responseBody.items)
            m == IF n < 4 THEN n ELSE 4
        IN  /\ Len(newsGrid) = m
            /\ \A i \in 1..m :
                  /\ newsGrid[i].kind = "card"
                  /\ newsGrid[i] = Card(responseBody.items[i])

\* C7: after a non-success status, a network failure or an unparseable body
\* the grid holds exactly the error message and no card, and stays so; one
\* request is issued per page load and none later.
C7_FailureShowsError ==
    /\ [](/\ requests <= 1
          /\ newsPc # "idle" => requests = 1
          /\ NewsFailed => newsGrid = << ErrorNode >>)
    /\ [][NewsFailed => (newsGrid' = newsGrid /\ requests' = requests)]_vars

\* the endpoint answered 500, the error message is shown and the delayed
\* animation setup has run since
C7_Witness ==
    /\ newsPc = "done"
    /\ fetchResult = Response(500)
    /\ requests = 1
    /\ newsGrid = << ErrorNode >>
    /\ animations \in {"scroll", "static"}

(***************************************************************************)
(* Properties of ThemeSpec.                                                *)
(***************************************************************************)
\* C6: whatever the storage slot held at startup, the current theme is light
\* or dark, and the theme class on the document and the value written back to
\* storage are those of light or dark.
C6_ThemeIsLightOrDark ==
    (pageState = "running" /\ storageMode = "ok") =>
        /\ currentTheme \in {"light", "dark"}
        /\ bodyClasses \subseteq {"light-mode", "dark-mode"}
        /\ storedTheme \in {"light", "dark"}

\* C8: persistence failures never surface: after startup and after every
\* toggle the load handler has completed, the document carries the class of the
\* current theme and the toggle control shows it; with storage unavailable the
\* theme is light.
C8_PersistenceFailuresSwallowed ==
    pageState # "boot" =>
        /\ pageState = "running"
        /\ storageMode = "unavailable" => currentTheme = "light"
        /\ (currentTheme \o "-mode") \in bodyClasses
        /\ "themeToggle" \in present =>
              /\ themeIcon = (IF currentTheme = "dark" THEN "sun" ELSE "moon")
              /\ themeLabel = (IF currentTheme = "dark" THEN "Switch to light mode"
                                                        ELSE "Switch to dark mode")

====
